---- MODULE Spec2Model ----
(***************************************************************************)
(* A model of rush-lib's CommandLineConfiguration (command-line.json       *)
(* compiler): the constructor that registers phases, commands and          *)
(* parameters, with its helpers _checkForPhaseSelfCycles and               *)
(* _populateRelatedPhaseSets, and prependAdditionalPathFolder.             *)
(*                                                                         *)
(* Conventions.  An optional JSON property is a sequence of length 0       *)
(* (absent / undefined) or 1 (present); a JS Map is a function whose       *)
(* DOMAIN is the key set (plus a sequence of keys where the code iterates  *)
(* it in insertion order); a Set<object> holds the objects' identities: a  *)
(* command is identified by its name, a parameter by its index in          *)
(* this.parameters, and a command's associatedParameters is a reference    *)
(* into the heap parameterSets, so that two commands can hold the very     *)
(* same Set.                                                               *)
(***************************************************************************)
EXTENDS Integers, Sequences, FiniteSets, TLC

VARIABLES
    json,                   \* the constructor's argument commandLineJson
    pc,                     \* "new", "constructed" (returned) or "failed" (threw)
    phases,                 \* this.phases: phase name -> IPhase
    phaseOrder,             \* insertion order of this.phases
    commands,               \* this.commands: command name -> Command
    parameters,             \* this.parameters: Parameter[]
    parameterSets,          \* heap of the associatedParameters Sets: reference -> set of parameter indices
    relatedPhaseSets,       \* the constructor's local relatedPhaseSets
    commandsByPhaseName,    \* the constructor's local commandsByPhaseName
    syntheticPhases,        \* the constructor's local syntheticPhasesForTranslatedBulkCommands
    error,                  \* the Error thrown by the constructor, if any
    additionalPathFolders,  \* this._additionalPathFolders
    file,                   \* loadFromFileOrDefault: jsonFilename and the file it names
    validated,              \* loadFromFileOrDefault: validateObject was called on the document
    calls,                  \* history: the arguments of the prependAdditionalPathFolder calls, in call order
    runPc,                  \* BaseInstallAction.runAsync: the position of the call
    installOptions,         \* runAsync: the parameters of the action and what its collaborators do
    installed,              \* runAsync: the number of _doInstall calls that have returned
    installSuccessful,      \* runAsync: the local installSuccessful
    thrown,                 \* runAsync: the error it is throwing, if any
    events                  \* history: the calls runAsync has made on its collaborators, in order

vars == <<json, pc, phases, phaseOrder, commands, parameters, parameterSets,
          relatedPhaseSets, commandsByPhaseName, syntheticPhases, error,
          additionalPathFolders, file, validated, calls,
          runPc, installOptions, installed, installSuccessful, thrown, events>>

\* The state of a call of BaseInstallAction.runAsync.
installVars == <<runPc, installOptions, installed, installSuccessful, thrown, events>>

\* The state of a CommandLineConfiguration.
configurationVars == <<json, pc, phases, phaseOrder, commands, parameters, parameterSets,
                       relatedPhaseSets, commandsByPhaseName, syntheticPhases, error,
                       additionalPathFolders, file, validated, calls>>

----------------------------------------------------------------------------
(* Optional values, maps and small sequence helpers *)

None == <<>>
Some(v) == <<v>>
IsSome(o) == Len(o) = 1
Get(o) == o[1]

EmptyMap == <<>>
MapSet(m, k, v) == (k :> v) @@ m
Has(seq, x) == \E i \in 1..Len(seq) : seq[i] = x
Range(seq) == {seq[i] : i \in 1..Len(seq)}

RECURSIVE SeqsUpTo(_, _)
SeqsUpTo(S, n) ==
    IF n = 0 THEN {<<>>}
    ELSE LET shorter == SeqsUpTo(S, n - 1)
         IN shorter \cup {Append(s, x) : s \in {t \in shorter : Len(t) = n - 1}, x \in S}

----------------------------------------------------------------------------
(* Names.  TLC strings are atomic, so the characters of each name the model
   uses are tabulated; prefix tests are computed on the characters. *)

EXPECTED_PHASE_NAME_PREFIX == "_phase:"
buildCommandName == "build"
rebuildCommandName == "rebuild"

Chars(name) ==
    CASE name = "_phase:"  -> <<"_", "p", "h", "a", "s", "e", ":">>
      [] name = "_phase:a" -> <<"_", "p", "h", "a", "s", "e", ":", "a">>
      [] name = "_phase:b" -> <<"_", "p", "h", "a", "s", "e", ":", "b">>
      [] name = "_phase:c" -> <<"_", "p", "h", "a", "s", "e", ":", "c">>
      [] name = "_phase:d" -> <<"_", "p", "h", "a", "s", "e", ":", "d">>
      [] name = "phase:a"  -> <<"p", "h", "a", "s", "e", ":", "a">>
      [] name = "_ph"      -> <<"_", "p", "h">>
      [] name = "build"    -> <<"b", "u", "i", "l", "d">>
      [] name = "rebuild"  -> <<"r", "e", "b", "u", "i", "l", "d">>
      [] name = "custom"   -> <<"c", "u", "s", "t", "o", "m">>
      [] name = "other"    -> <<"o", "t", "h", "e", "r">>

\* String.prototype.substring(0, n)
Substring0(chars, n) == SubSeq(chars, 1, IF n < Len(chars) THEN n ELSE Len(chars))

----------------------------------------------------------------------------
(* Errors thrown by the constructor *)

NoError == [kind |-> "none", name |-> "", detail |-> "", chain |-> <<>>]
Err(kind, name, detail) == [kind |-> kind, name |-> name, detail |-> detail, chain |-> <<>>]

\* The constructor's state while it runs: this.* and its locals.
NewBuilder ==
    [phases |-> EmptyMap, phaseOrder |-> <<>>, commands |-> EmptyMap,
     parameters |-> <<>>, parameterSets |-> EmptyMap,
     relatedPhaseSets |-> EmptyMap, commandsByPhaseName |-> EmptyMap,
     syntheticPhases |-> EmptyMap, buildCommandPhases |-> None,
     error |-> NoError]

Threw(b) == b.error.kind # "none"
Throw(b, e) == [b EXCEPT !.error = e]

----------------------------------------------------------------------------
(* Phase registration: the first loop of the constructor *)

\* A variant that accepts a name that ends with the prefix.
RegisterPhase_EmptyAllowed(b, phase) ==
    IF phase.name \in DOMAIN b.phases
    THEN Throw(b, Err("phaseSpecifiedMoreThanOnce", phase.name, ""))
    ELSE IF Substring0(Chars(phase.name), Len(Chars(EXPECTED_PHASE_NAME_PREFIX)))
                # Chars(EXPECTED_PHASE_NAME_PREFIX)
    THEN Throw(b, Err("phaseNamePrefix", phase.name, ""))
    ELSE [b EXCEPT
            !.phases = MapSet(@, phase.name,
                [name |-> phase.name, isSynthetic |-> FALSE,
                 self |-> phase.self, upstream |-> phase.upstream]),
            !.phaseOrder = Append(@, phase.name),
            !.commandsByPhaseName = MapSet(@, phase.name, {})]

\* One iteration of the loop over commandLineJson.phases.
RegisterPhase(b, phase) ==
    IF phase.name \in DOMAIN b.phases
    THEN Throw(b, Err("phaseSpecifiedMoreThanOnce", phase.name, ""))
    ELSE IF Substring0(Chars(phase.name), Len(Chars(EXPECTED_PHASE_NAME_PREFIX)))
                # Chars(EXPECTED_PHASE_NAME_PREFIX)
    THEN Throw(b, Err("phaseNamePrefix", phase.name, ""))
    ELSE IF Len(Chars(phase.name)) <= Len(Chars(EXPECTED_PHASE_NAME_PREFIX))
    THEN Throw(b, Err("phaseNameEmpty", phase.name, ""))
    ELSE [b EXCEPT
            !.phases = MapSet(@, phase.name,
                [name |-> phase.name, isSynthetic |-> FALSE,
                 self |-> phase.self, upstream |-> phase.upstream]),
            !.phaseOrder = Append(@, phase.name),
            !.commandsByPhaseName = MapSet(@, phase.name, {})]

RECURSIVE RegisterPhases(_, _, _)
RegisterPhases(b, list, i) ==
    IF Threw(b) \/ i > Len(list) THEN b
    ELSE RegisterPhases(RegisterPhase(b, list[i]), list, i + 1)

----------------------------------------------------------------------------
(* _checkForPhaseSelfCycles.  checkedPhases is a Set<string>, kept as the
   sequence of its members in insertion order.  The result says whether the
   call threw, and holds the set as the call left it. *)

RECURSIVE CheckForPhaseSelfCycles(_, _, _)
RECURSIVE CheckSelfDependencies(_, _, _, _)

\* A variant that shares one set along every branch.
CheckedAfterCall_NeverCloned(dependencies, own, passed) == passed

\* The caller's set after a recursive call: the call was given a clone of
\* it when the phase has several self dependencies, and the set itself
\* (which the call then extends) when it has one.
CheckedAfterCall(dependencies, own, passed) ==
    IF Len(dependencies) > 1 THEN own ELSE passed

\* A variant that only sees a phase that lists itself.
CheckForPhaseSelfCycles_DirectOnly(ph, phase, checkedPhases) ==
    IF IsSome(phase.self) /\ Has(Get(phase.self), phase.name)
    THEN [threw |-> TRUE, dependency |-> phase.name, checked |-> <<phase.name>>]
    ELSE [threw |-> FALSE, dependency |-> "", checked |-> checkedPhases]

CheckSelfDependencies(ph, dependencies, i, checkedPhases) ==
    IF i > Len(dependencies)
    THEN [threw |-> FALSE, dependency |-> "", checked |-> checkedPhases]
    ELSE LET dependencyName == dependencies[i] IN
         IF Has(checkedPhases, dependencyName)
         THEN [threw |-> TRUE, dependency |-> dependencyName, checked |-> checkedPhases]
         ELSE LET added == Append(checkedPhases, dependencyName) IN
              IF dependencyName \notin DOMAIN ph
              THEN [threw |-> FALSE, dependency |-> "", checked |-> added]
              ELSE LET r == CheckForPhaseSelfCycles(ph, ph[dependencyName], added) IN
                   IF r.threw THEN r
                   ELSE CheckSelfDependencies(ph, dependencies, i + 1,
                            CheckedAfterCall(dependencies, added, r.checked))

CheckForPhaseSelfCycles(ph, phase, checkedPhases) ==
    IF IsSome(phase.self)
    THEN CheckSelfDependencies(ph, Get(phase.self), 1, checkedPhases)
    ELSE [threw |-> FALSE, dependency |-> "", checked |-> checkedPhases]

----------------------------------------------------------------------------
(* _populateRelatedPhaseSets.  this.phases.get(phaseName)! is undefined for
   an unregistered name, and reading its .dependencies throws a TypeError. *)

RECURSIVE PopulateRelatedPhaseSets(_, _, _)
RECURSIVE PopulateDependencies(_, _, _, _)

PopulateDependencies(ph, dependencies, i, r) ==
    IF r.threw \/ i > Len(dependencies) THEN r
    ELSE PopulateDependencies(ph, dependencies, i + 1,
             PopulateRelatedPhaseSets(ph, dependencies[i], r.set))

\* A variant that follows self dependencies only.
PopulateUpstream_Skipped(ph, phase, r) == r

PopulateUpstream(ph, phase, r) ==
    IF IsSome(phase.upstream) THEN PopulateDependencies(ph, Get(phase.upstream), 1, r) ELSE r

PopulateSelf(ph, phase, r) ==
    IF IsSome(phase.self) THEN PopulateDependencies(ph, Get(phase.self), 1, r) ELSE r

PopulateRelatedPhaseSets(ph, phaseName, relatedPhaseSet) ==
    IF phaseName \in relatedPhaseSet
    THEN [threw |-> FALSE, set |-> relatedPhaseSet]
    ELSE LET added == [threw |-> FALSE, set |-> relatedPhaseSet \cup {phaseName}] IN
         IF phaseName \notin DOMAIN ph
         THEN [threw |-> TRUE, set |-> added.set]
         ELSE PopulateUpstream(ph, ph[phaseName], PopulateSelf(ph, ph[phaseName], added))

----------------------------------------------------------------------------
(* The second loop of the constructor: for each registered phase, in
   insertion order, validate its dependencies, check for self cycles and
   compute its related phase set. *)

RECURSIVE FirstMissing(_, _, _)
\* Index of the first entry of list that is not a registered phase, or 0.
FirstMissing(ph, list, i) ==
    IF i > Len(list) THEN 0
    ELSE IF list[i] \notin DOMAIN ph THEN i
    ELSE FirstMissing(ph, list, i + 1)

ValidatePhase(b, phase) ==
    LET missingSelf == IF IsSome(phase.self) THEN FirstMissing(b.phases, Get(phase.self), 1) ELSE 0
        missingUp == IF IsSome(phase.upstream) THEN FirstMissing(b.phases, Get(phase.upstream), 1) ELSE 0
        cycle == CheckForPhaseSelfCycles(b.phases, phase, <<>>)
        related == PopulateRelatedPhaseSets(b.phases, phase.name, {})
    IN  IF missingSelf # 0
        THEN Throw(b, Err("selfDependencyDoesNotExist", phase.name, Get(phase.self)[missingSelf]))
        ELSE IF missingUp # 0
        THEN Throw(b, Err("upstreamDependencyDoesNotExist", phase.name, Get(phase.upstream)[missingUp]))
        ELSE IF cycle.threw
        THEN Throw(b, [kind |-> "cycle", name |-> phase.name,
                       detail |-> cycle.dependency, chain |-> cycle.checked])
        ELSE IF related.threw
        THEN Throw(b, Err("TypeError", phase.name, ""))
        ELSE [b EXCEPT !.relatedPhaseSets = MapSet(@, phase.name, related.set)]

RECURSIVE ValidatePhases(_, _)
ValidatePhases(b, i) ==
    IF Threw(b) \/ i > Len(b.phaseOrder) THEN b
    ELSE ValidatePhases(ValidatePhase(b, b.phases[b.phaseOrder[i]]), i + 1)

----------------------------------------------------------------------------
(* Commands: the third loop of the constructor *)

\* A variant that associates the command with every registered phase.
PopulateCommandsForPhase_EveryPhase(b, phaseName, commandName) ==
    [b EXCEPT !.commandsByPhaseName = [q \in DOMAIN @ |-> @[q] \cup {commandName}]]

PopulateCommandsForPhase(b, phaseName, commandName) ==
    [b EXCEPT !.commandsByPhaseName =
        [q \in DOMAIN @ |->
            IF q \in b.relatedPhaseSets[phaseName] THEN @[q] \cup {commandName} ELSE @[q]]]

\* A variant that keeps the upstream dependency whatever the command says.
PhaseForBulkCommand_AlwaysOrdered(command) ==
    [name |-> command.name, isSynthetic |-> TRUE, self |-> None,
     upstream |-> Some(<<command.name>>)]

\* The phase registered for a translated bulk command.
PhaseForBulkCommand(command) ==
    [name |-> command.name, isSynthetic |-> TRUE, self |-> None,
     upstream |-> IF IsSome(command.ignoreDependencyOrder) /\ Get(command.ignoreDependencyOrder)
                  THEN None ELSE Some(<<command.name>>)]

\* A variant that leaves the build cache enabled.
TranslatedCommand_CacheEnabled(command) ==
    [name |-> command.name, commandKind |-> "phased", phases |-> <<command.name>>,
     skipPhasesForCommand |-> None, isSynthetic |-> TRUE, disableBuildCache |-> None,
     associatedParameters |-> command.name,
     ignoreDependencyOrder |-> command.ignoreDependencyOrder,
     safeForSimultaneousRushProcesses |-> command.safeForSimultaneousRushProcesses]

\* The phased command a bulk command is translated to.
TranslatedCommand(command) ==
    [name |-> command.name, commandKind |-> "phased", phases |-> <<command.name>>,
     skipPhasesForCommand |-> None, isSynthetic |-> TRUE, disableBuildCache |-> Some(TRUE),
     associatedParameters |-> command.name,
     ignoreDependencyOrder |-> command.ignoreDependencyOrder,
     safeForSimultaneousRushProcesses |-> command.safeForSimultaneousRushProcesses]

\* translateBulkCommandToPhasedCommand, up to the command it returns
\* (TranslatedCommand), which the caller stores.
TranslateBulkCommandToPhasedCommand(b, command) ==
    LET phaseName == command.name
        ph == MapSet(b.phases, phaseName, PhaseForBulkCommand(command))
        related == PopulateRelatedPhaseSets(ph, phaseName, {})
        b1 == [b EXCEPT
                 !.phases = ph,
                 !.phaseOrder = IF phaseName \in DOMAIN b.phases THEN @ ELSE Append(@, phaseName),
                 !.syntheticPhases = MapSet(@, command.name, phaseName),
                 !.relatedPhaseSets = MapSet(@, phaseName, related.set),
                 !.parameterSets = MapSet(@, command.name, {}),
                 !.commandsByPhaseName = MapSet(@, phaseName, {})]
    IN  IF related.threw THEN Throw(b, Err("TypeError", phaseName, ""))
        ELSE PopulateCommandsForPhase(b1, phaseName, command.name)

RECURSIVE PopulatePhasedList(_, _, _, _, _)
\* The loops over a phased command's "phases" and "skipPhasesForCommand".
PopulatePhasedList(b, command, list, i, errorKind) ==
    IF Threw(b) \/ i > Len(list) THEN b
    ELSE IF list[i] \notin DOMAIN b.phases
    THEN Throw(b, Err(errorKind, command.name, list[i]))
    ELSE PopulatePhasedList(PopulateCommandsForPhase(b, list[i], command.name),
                            command, list, i + 1, errorKind)

NormalizedCommand(command) ==
    [name |-> command.name, commandKind |-> command.commandKind,
     phases |-> command.phases, skipPhasesForCommand |-> command.skipPhasesForCommand,
     isSynthetic |-> FALSE, disableBuildCache |-> None,
     associatedParameters |-> command.name,
     ignoreDependencyOrder |-> command.ignoreDependencyOrder,
     safeForSimultaneousRushProcesses |-> command.safeForSimultaneousRushProcesses]

\* The switch on command.commandKind.
NormalizeCommand(b, command) ==
    CASE command.commandKind = "phased" ->
            LET b0 == [b EXCEPT !.parameterSets = MapSet(@, command.name, {})]
                b1 == PopulatePhasedList(b0, command, command.phases, 1,
                                         "commandPhaseDoesNotExist")
            IN  IF IsSome(command.skipPhasesForCommand)
                THEN PopulatePhasedList(b1, command, Get(command.skipPhasesForCommand), 1,
                                        "commandSkipPhaseDoesNotExist")
                ELSE b1
      [] command.commandKind = "global" ->
            [b EXCEPT !.parameterSets = MapSet(@, command.name, {})]
      [] command.commandKind = "bulk" ->
            TranslateBulkCommandToPhasedCommand(b, command)

\* A variant that does not look at safeForSimultaneousRushProcesses.
StoreCommand_FlagUnchecked(b, command, normalizedCommand) ==
    IF normalizedCommand.name \in {buildCommandName, rebuildCommandName}
       /\ normalizedCommand.commandKind = "global"
    THEN Throw(b, Err("reservedCommandIsGlobal", normalizedCommand.name, ""))
    ELSE [b EXCEPT
            !.buildCommandPhases =
                IF normalizedCommand.name = buildCommandName
                THEN Some(normalizedCommand.phases) ELSE @,
            !.commands = MapSet(@, normalizedCommand.name, normalizedCommand)]

\* The reserved-name checks on "build" and "rebuild", and this.commands.set.
StoreCommand(b, command, normalizedCommand) ==
    IF normalizedCommand.name \in {buildCommandName, rebuildCommandName}
       /\ normalizedCommand.commandKind = "global"
    THEN Throw(b, Err("reservedCommandIsGlobal", normalizedCommand.name, ""))
    ELSE IF normalizedCommand.name \in {buildCommandName, rebuildCommandName}
            /\ command.safeForSimultaneousRushProcesses
    THEN Throw(b, Err("reservedCommandIsSafeForSimultaneous", normalizedCommand.name, ""))
    ELSE [b EXCEPT
            !.buildCommandPhases =
                IF normalizedCommand.name = buildCommandName
                THEN Some(normalizedCommand.phases) ELSE @,
            !.commands = MapSet(@, normalizedCommand.name, normalizedCommand)]

ProcessCommand(b, command) ==
    IF command.name \in DOMAIN b.commands
    THEN Throw(b, Err("commandSpecifiedMoreThanOnce", command.name, ""))
    ELSE LET b1 == NormalizeCommand(b, command) IN
         IF Threw(b1) THEN b1
         ELSE StoreCommand(b1, command,
                  IF command.commandKind = "bulk" THEN TranslatedCommand(command)
                  ELSE NormalizedCommand(command))

RECURSIVE ProcessCommands(_, _, _)
ProcessCommands(b, list, i) ==
    IF Threw(b) \/ i > Len(list) THEN b
    ELSE ProcessCommands(ProcessCommand(b, list[i]), list, i + 1)

----------------------------------------------------------------------------
(* The default "build" and "rebuild" commands *)

DEFAULT_BUILD_COMMAND_JSON ==
    [name |-> buildCommandName, commandKind |-> "bulk", phases |-> <<>>,
     skipPhasesForCommand |-> None, ignoreDependencyOrder |-> Some(FALSE),
     safeForSimultaneousRushProcesses |-> FALSE]

DEFAULT_REBUILD_COMMAND_JSON ==
    [name |-> rebuildCommandName, commandKind |-> "bulk", phases |-> <<>>,
     skipPhasesForCommand |-> None, ignoreDependencyOrder |-> Some(FALSE),
     safeForSimultaneousRushProcesses |-> FALSE]

\* If "build" was not specified, translate the default bulk "build"; its
\* disableBuildCache is then reset to the default JSON's (undefined) value.
EnsureBuildCommand(b) ==
    IF buildCommandName \in DOMAIN b.commands THEN b
    ELSE LET b1 == TranslateBulkCommandToPhasedCommand(b, DEFAULT_BUILD_COMMAND_JSON)
             buildCommand == [TranslatedCommand(DEFAULT_BUILD_COMMAND_JSON)
                                EXCEPT !.disableBuildCache = None]
         IN  IF Threw(b1) THEN b1
             ELSE [b1 EXCEPT !.buildCommandPhases = Some(buildCommand.phases),
                             !.commands = MapSet(@, buildCommand.name, buildCommand)]

\* A variant that adds no "rebuild".
EnsureRebuildCommand_Omitted(b) == b

\* A variant that gives "rebuild" a copy of build's associatedParameters.
EnsureRebuildCommand_CopiesSet(b) ==
    IF rebuildCommandName \in DOMAIN b.commands THEN b
    ELSE [b EXCEPT
            !.parameterSets = MapSet(@, rebuildCommandName,
                @[b.commands[buildCommandName].associatedParameters]),
            !.commands = MapSet(@, rebuildCommandName,
                [name |-> rebuildCommandName, commandKind |-> "phased",
                 phases |-> Get(b.buildCommandPhases), skipPhasesForCommand |-> None,
                 isSynthetic |-> TRUE, disableBuildCache |-> None,
                 associatedParameters |-> rebuildCommandName,
                 ignoreDependencyOrder |-> Some(FALSE),
                 safeForSimultaneousRushProcesses |-> FALSE])]

\* If "rebuild" was not specified, add one that reuses build's phases and
\* shares build's associatedParameters Set.
EnsureRebuildCommand(b) ==
    IF rebuildCommandName \in DOMAIN b.commands THEN b
    ELSE IF ~IsSome(b.buildCommandPhases)
    THEN Throw(b, Err("buildPhasesNotFound", buildCommandName, ""))
    ELSE [b EXCEPT !.commands = MapSet(@, rebuildCommandName,
            [name |-> rebuildCommandName, commandKind |-> "phased",
             phases |-> Get(b.buildCommandPhases), skipPhasesForCommand |-> None,
             isSynthetic |-> TRUE, disableBuildCache |-> None,
             associatedParameters |-> b.commands[buildCommandName].associatedParameters,
             ignoreDependencyOrder |-> DEFAULT_REBUILD_COMMAND_JSON.ignoreDependencyOrder,
             safeForSimultaneousRushProcesses |->
                 DEFAULT_REBUILD_COMMAND_JSON.safeForSimultaneousRushProcesses])]

----------------------------------------------------------------------------
(* Parameters: the last loop of the constructor.  A parameter being bound
   is the record w: the builder w.b, the normalizedParameter w.p (already
   pushed to this.parameters at index w.index) and the local flag
   w.has = parameterHasAssociations. *)

\* A variant that adds the parameter to no command.
PopulateCommandAssociatedParametersForPhase_Nothing(b, phaseName, index) == b

PopulateCommandAssociatedParametersForPhase(b, phaseName, index) ==
    [b EXCEPT !.parameterSets =
        [ref \in DOMAIN @ |->
            IF \E c \in b.commandsByPhaseName[phaseName] :
                   b.commands[c].associatedParameters = ref
            THEN @[ref] \cup {index} ELSE @[ref]]]

NormalizedParameter(parameter) ==
    [parameterKind |-> parameter.parameterKind, longName |-> parameter.longName,
     associatedPhases |-> IF IsSome(parameter.associatedPhases)
                          THEN Get(parameter.associatedPhases) ELSE <<>>,
     associatedCommands |-> IF IsSome(parameter.associatedCommands)
                            THEN Get(parameter.associatedCommands) ELSE <<>>,
     addPhasesToCommand |-> parameter.addPhasesToCommand,
     skipPhasesForCommand |-> parameter.skipPhasesForCommand,
     alternatives |-> parameter.alternatives,
     defaultValue |-> parameter.defaultValue]

WThrow(w, e) == [w EXCEPT !.b = Throw(@, e)]
WPopulate(w, phaseName) ==
    [w EXCEPT !.b = PopulateCommandAssociatedParametersForPhase(@, phaseName, w.index),
              !.has = TRUE]

RECURSIVE BindAddPhasesToCommand(_, _, _)
BindAddPhasesToCommand(w, list, i) ==
    IF Threw(w.b) \/ i > Len(list) THEN w
    ELSE IF list[i] \notin DOMAIN w.b.phases \/ w.b.phases[list[i]].isSynthetic
    THEN WThrow(w, Err("addPhasesToCommandDoesNotExist", w.p.longName, list[i]))
    ELSE BindAddPhasesToCommand(WPopulate(w, list[i]), list, i + 1)

RECURSIVE BindSkipPhasesForCommand_OverlapAllowed(_, _, _, _)
\* A variant that lets a phase be both added and skipped.
BindSkipPhasesForCommand_OverlapAllowed(w, list, i, addPhasesToCommandSet) ==
    IF Threw(w.b) \/ i > Len(list) THEN w
    ELSE IF list[i] \notin DOMAIN w.b.phases \/ w.b.phases[list[i]].isSynthetic
    THEN WThrow(w, Err("skipPhasesForCommandDoesNotExist", w.p.longName, list[i]))
    ELSE BindSkipPhasesForCommand_OverlapAllowed(WPopulate(w, list[i]), list, i + 1,
                                                 addPhasesToCommandSet)

RECURSIVE BindSkipPhasesForCommand(_, _, _, _)
BindSkipPhasesForCommand(w, list, i, addPhasesToCommandSet) ==
    IF Threw(w.b) \/ i > Len(list) THEN w
    ELSE IF list[i] \notin DOMAIN w.b.phases \/ w.b.phases[list[i]].isSynthetic
    THEN WThrow(w, Err("skipPhasesForCommandDoesNotExist", w.p.longName, list[i]))
    ELSE IF list[i] \in addPhasesToCommandSet
    THEN WThrow(w, Err("phaseInBothAddAndSkip", w.p.longName, list[i]))
    ELSE BindSkipPhasesForCommand(WPopulate(w, list[i]), list, i + 1, addPhasesToCommandSet)

BindFlag(w) ==
    LET addPhasesToCommandSet ==
            IF IsSome(w.p.addPhasesToCommand) THEN Range(Get(w.p.addPhasesToCommand)) ELSE {}
        w1 == IF IsSome(w.p.addPhasesToCommand)
              THEN BindAddPhasesToCommand(w, Get(w.p.addPhasesToCommand), 1) ELSE w
    IN  IF IsSome(w.p.skipPhasesForCommand)
        THEN BindSkipPhasesForCommand(w1, Get(w.p.skipPhasesForCommand), 1, addPhasesToCommandSet)
        ELSE w1

\* defaultValue && alternativeNames.indexOf(defaultValue) < 0
BindChoice(w) ==
    IF IsSome(w.p.defaultValue) /\ Get(w.p.defaultValue) # ""
       /\ ~Has(w.p.alternatives, Get(w.p.defaultValue))
    THEN WThrow(w, Err("defaultValueNotAnAlternative", w.p.longName, Get(w.p.defaultValue)))
    ELSE w

\* Array.prototype.splice(i, 1)
Splice1(seq, i) == SubSeq(seq, 1, i - 1) \o SubSeq(seq, i + 1, Len(seq))

\* A variant that moves on past the entry that follows a removed one.
IndexAfterSplice_NoDecrement(i) == i + 1

\* The position looked at after the entry at i was removed: splice(i, 1)
\* moves the next entry to i, and i-- undoes the loop's i++.
IndexAfterSplice(i) == i

RECURSIVE BindAssociatedCommands(_, _)
\* The loop over normalizedParameter.associatedCommands, i being the
\* 1-based position of the entry looked at.
BindAssociatedCommands(w, i) ==
    IF Threw(w.b) \/ i > Len(w.p.associatedCommands) THEN w
    ELSE LET associatedCommandName == w.p.associatedCommands[i] IN
         IF associatedCommandName \in DOMAIN w.b.syntheticPhases
            /\ w.b.syntheticPhases[associatedCommandName] # ""
         THEN LET syntheticPhaseName == w.b.syntheticPhases[associatedCommandName]
                  w1 == [w EXCEPT !.p.associatedPhases = Append(@, syntheticPhaseName),
                                  !.p.associatedCommands = Splice1(@, i)]
              IN  BindAssociatedCommands(WPopulate(w1, syntheticPhaseName),
                                         IndexAfterSplice(i))
         ELSE IF associatedCommandName \notin DOMAIN w.b.commands
         THEN WThrow(w, Err("associatedCommandDoesNotExist", w.p.longName, associatedCommandName))
         ELSE BindAssociatedCommands(
                [w EXCEPT !.b.parameterSets =
                              [@ EXCEPT ![w.b.commands[associatedCommandName].associatedParameters]
                                            = @ \cup {w.index}],
                          !.has = TRUE],
                i + 1)

RECURSIVE BindAssociatedPhases_UnknownIgnored(_, _)
\* A variant that passes over a phase that is not registered.
BindAssociatedPhases_UnknownIgnored(w, i) ==
    IF Threw(w.b) \/ i > Len(w.p.associatedPhases) THEN w
    ELSE IF w.p.associatedPhases[i] \notin DOMAIN w.b.phases
    THEN BindAssociatedPhases_UnknownIgnored(w, i + 1)
    ELSE BindAssociatedPhases_UnknownIgnored(WPopulate(w, w.p.associatedPhases[i]), i + 1)

RECURSIVE BindAssociatedPhases(_, _)
BindAssociatedPhases(w, i) ==
    IF Threw(w.b) \/ i > Len(w.p.associatedPhases) THEN w
    ELSE IF w.p.associatedPhases[i] \notin DOMAIN w.b.phases
    THEN WThrow(w, Err("associatedPhaseDoesNotExist", w.p.longName, w.p.associatedPhases[i]))
    ELSE BindAssociatedPhases(WPopulate(w, w.p.associatedPhases[i]), i + 1)

BindKind(w) ==
    CASE w.p.parameterKind = "flag" -> BindFlag(w)
      [] w.p.parameterKind = "choice" -> BindChoice(w)
      [] OTHER -> w

\* A variant without the check.
CheckHasAssociations_Never(w) == w

\* if (!parameterHasAssociations) throw
CheckHasAssociations(w) ==
    IF ~Threw(w.b) /\ ~w.has
    THEN WThrow(w, Err("noAssociations", w.p.longName, ""))
    ELSE w

\* One iteration of the loop over commandLineJson.parameters.
ProcessParameter(b, parameter) ==
    LET index == Len(b.parameters) + 1
        w0 == [b |-> b, p |-> NormalizedParameter(parameter), index |-> index, has |-> FALSE]
        w == CheckHasAssociations(BindAssociatedPhases(BindAssociatedCommands(BindKind(w0), 1), 1))
    IN  [w.b EXCEPT !.parameters = Append(@, w.p)]

RECURSIVE ProcessParameters(_, _, _)
ProcessParameters(b, list, i) ==
    IF Threw(b) \/ i > Len(list) THEN b
    ELSE ProcessParameters(ProcessParameter(b, list[i]), list, i + 1)

----------------------------------------------------------------------------
(* The constructor.  commandLineJson is [defined, phases, commands,
   parameters]: undefined when ~defined, each array optional. *)

JsonPhases(j) == IF j.defined /\ IsSome(j.phases) THEN Get(j.phases) ELSE <<>>
JsonCommands(j) == IF j.defined /\ IsSome(j.commands) THEN Get(j.commands) ELSE <<>>
JsonParameters(j) == IF j.defined /\ IsSome(j.parameters) THEN Get(j.parameters) ELSE <<>>

ConstructPhases(j) == ValidatePhases(RegisterPhases(NewBuilder, JsonPhases(j), 1), 1)

ConstructCommands(b, j) ==
    LET b1 == ProcessCommands(b, JsonCommands(j), 1)
        b2 == IF Threw(b1) THEN b1 ELSE EnsureBuildCommand(b1)
    IN  IF Threw(b2) THEN b2 ELSE EnsureRebuildCommand(b2)

Constructor(j) ==
    LET b1 == ConstructPhases(j)
        b2 == IF Threw(b1) THEN b1 ELSE ConstructCommands(b1, j)
    IN  IF Threw(b2) THEN b2 ELSE ProcessParameters(b2, JsonParameters(j), 1)

----------------------------------------------------------------------------
(* Actions *)

Construct ==
    /\ pc = "new"
    /\ \E b \in {Constructor(json)} :
        /\ pc' = IF Threw(b) THEN "failed" ELSE "constructed"
        /\ phases' = b.phases
        /\ phaseOrder' = b.phaseOrder
        /\ commands' = b.commands
        /\ parameters' = b.parameters
        /\ parameterSets' = b.parameterSets
        /\ relatedPhaseSets' = b.relatedPhaseSets
        /\ commandsByPhaseName' = b.commandsByPhaseName
        /\ syntheticPhases' = b.syntheticPhases
        /\ error' = b.error
    /\ UNCHANGED <<json, additionalPathFolders, file, validated, calls>>
    /\ UNCHANGED installVars

\* No install action is running.
NoInstall ==
    /\ runPc = "idle"
    /\ installOptions = [defined |-> FALSE]
    /\ installed = 0
    /\ installSuccessful = TRUE
    /\ thrown = None
    /\ events = <<>>

\* new CommandLineConfiguration(commandLineJson): no file is involved.
NewWith(commandLineJson) ==
    /\ file = [named |-> FALSE, exists |-> FALSE, conforms |-> TRUE,
               document |-> [defined |-> FALSE, phases |-> None, commands |-> None,
                             parameters |-> None]]
    /\ validated = FALSE
    /\ json = commandLineJson
    /\ pc = "new"
    /\ phases = EmptyMap
    /\ phaseOrder = <<>>
    /\ commands = EmptyMap
    /\ parameters = <<>>
    /\ parameterSets = EmptyMap
    /\ relatedPhaseSets = EmptyMap
    /\ commandsByPhaseName = EmptyMap
    /\ syntheticPhases = EmptyMap
    /\ error = NoError
    /\ additionalPathFolders = <<>>
    /\ calls = <<>>

InitWith(commandLineJson) == NewWith(commandLineJson) /\ NoInstall

----------------------------------------------------------------------------
(* loadFromFileOrDefault.  file is [named, exists, document, conforms]:
   whether jsonFilename was given, whether the file exists, what
   JsonFile.load returns for it, and whether the schema accepts the document
   once the defaults are merged into it. *)

\* { ...commandDefaultDefinition, ...command }: the properties of the default
\* "build" or "rebuild" that a bulk command of that name leaves out.
MergeDefault(command) ==
    IF command.commandKind = "bulk" /\ command.name \in {buildCommandName, rebuildCommandName}
    THEN LET commandDefaultDefinition ==
                 IF command.name = buildCommandName
                 THEN DEFAULT_BUILD_COMMAND_JSON ELSE DEFAULT_REBUILD_COMMAND_JSON
         IN  [command EXCEPT
                !.ignoreDependencyOrder =
                    IF IsSome(@) THEN @ ELSE commandDefaultDefinition.ignoreDependencyOrder]
    ELSE command

RECURSIVE MergeDefaults(_, _)
MergeDefaults(list, i) ==
    IF i > Len(list) THEN list
    ELSE MergeDefaults([list EXCEPT ![i] = MergeDefault(list[i])], i + 1)

LoadFromFileOrDefault ==
    /\ pc = "load"
    /\ LET loaded == file.named /\ file.exists
           document == IF loaded THEN file.document
                       ELSE [defined |-> FALSE, phases |-> None, commands |-> None,
                             parameters |-> None]
           hasCommands == loaded /\ document.defined /\ IsSome(document.commands)
           commandLineJson ==
               IF hasCommands
               THEN [document EXCEPT !.commands = Some(MergeDefaults(Get(@), 1))]
               ELSE document
       IN  /\ json' = commandLineJson
           /\ validated' = hasCommands
           /\ IF hasCommands /\ ~file.conforms
              THEN /\ pc' = "failed"
                   /\ error' = Err("schemaValidation", "", "")
                   /\ UNCHANGED <<phases, phaseOrder, commands, parameters, parameterSets,
                                  relatedPhaseSets, commandsByPhaseName, syntheticPhases>>
              ELSE \E b \in {Constructor(commandLineJson)} :
                   /\ pc' = IF Threw(b) THEN "failed" ELSE "constructed"
                   /\ phases' = b.phases
                   /\ phaseOrder' = b.phaseOrder
                   /\ commands' = b.commands
                   /\ parameters' = b.parameters
                   /\ parameterSets' = b.parameterSets
                   /\ relatedPhaseSets' = b.relatedPhaseSets
                   /\ commandsByPhaseName' = b.commandsByPhaseName
                   /\ syntheticPhases' = b.syntheticPhases
                   /\ error' = b.error
    /\ UNCHANGED <<file, additionalPathFolders, calls>>
    /\ UNCHANGED installVars

\* A call of loadFromFileOrDefault(jsonFilename) about to start.
InitLoad(f) ==
    /\ file = f
    /\ validated = FALSE
    /\ json = [defined |-> FALSE, phases |-> None, commands |-> None, parameters |-> None]
    /\ pc = "load"
    /\ phases = EmptyMap
    /\ phaseOrder = <<>>
    /\ commands = EmptyMap
    /\ parameters = <<>>
    /\ parameterSets = EmptyMap
    /\ relatedPhaseSets = EmptyMap
    /\ commandsByPhaseName = EmptyMap
    /\ syntheticPhases = EmptyMap
    /\ error = NoError
    /\ additionalPathFolders = <<>>
    /\ calls = <<>>
    /\ NoInstall

----------------------------------------------------------------------------
(* prependAdditionalPathFolder *)

MaxFolders == 3     \* calls of prependAdditionalPathFolder on one configuration
PathFolders == {"/one", "/two", "/three"}

\* A variant that adds the folder at the end.
Unshift_AtEnd(list, x) == Append(list, x)

\* Array.prototype.unshift
Unshift(list, x) == <<x>> \o list

PrependAdditionalPathFolder ==
    /\ pc = "constructed"
    /\ Len(calls) < MaxFolders
    /\ \E pathFolder \in PathFolders :
        /\ additionalPathFolders' = Unshift(additionalPathFolders, pathFolder)
        /\ calls' = Append(calls, pathFolder)
    /\ UNCHANGED <<json, pc, phases, phaseOrder, commands, parameters, parameterSets,
                   relatedPhaseSets, commandsByPhaseName, syntheticPhases, error,
                   file, validated>>
    /\ UNCHANGED installVars

----------------------------------------------------------------------------
(* BaseInstallAction.runAsync.  installOptions holds what the call reads:
   filtered (pnpmFilterArguments is not empty and subspaces are enabled),
   selectedSubspaces (the subspaces of the selected projects, None when
   getSelectedProjectsAsync gives undefined), purge, networkConcurrency,
   packageManager, maxInstallAttempts and telemetry (this.parser.telemetry
   is defined).  events is the history of the calls it makes on the event
   hooks manager, the purge manager, the install manager and the telemetry.
   Whether a _doInstall call throws is chosen when it is made; the other
   collaborators are taken to return. *)

MaxSubspaces == 2   \* subspaces of the selected projects
SubspaceNameSet == {"first", "second"}
PackageManagers == {"pnpm", "npm", "yarn"}
NetworkConcurrencies == {None, Some(0), Some(4)}
InstallAttempts == {-1, 0, 1, 3}

Event(name, detail) == [name |-> name, detail |-> detail]

\* The local subspaceNames (lines 115-127), once the selection has not thrown.
SubspaceNames(o) == IF o.filtered THEN o.selectedSubspaces ELSE None

\* The number of _doInstall calls the try block makes if none throws.
InstallCount(o) == IF IsSome(SubspaceNames(o)) THEN Len(Get(SubspaceNames(o))) ELSE 1

\* A variant that reports every install as successful.
TelemetryResult_AlwaysSucceeded(success) == "Succeeded"

\* _collectTelemetry: the result it records.
TelemetryResult(success) == IF success THEN "Succeeded" ELSE "Failed"

\* _collectTelemetry: the calls it makes.
CollectTelemetry(o, success) ==
    <<Event("_collectTelemetry", TelemetryResult(success))>>
    \o (IF o.telemetry THEN <<Event("telemetry.log", TelemetryResult(success))>> ELSE <<>>)

\* Lines 112-162: the selection of the subspaces, the checks and the
\* preRushInstall event hook.
RunAsyncBegin ==
    /\ runPc = "start"
    /\ IF installOptions.filtered /\ ~IsSome(installOptions.selectedSubspaces)
       THEN /\ thrown' = Some("noProjectsSelected")
            /\ runPc' = "threw"
            /\ UNCHANGED events
       ELSE /\ events' = Append(events, Event("preRushInstall", ""))
            /\ runPc' = "hooked"
            /\ UNCHANGED thrown
    /\ UNCHANGED <<installOptions, installed, installSuccessful>>
    /\ UNCHANGED configurationVars

\* Lines 164-193: the purge and the validation of the parameters.
RunAsyncValidate ==
    /\ runPc = "hooked"
    /\ events' = IF installOptions.purge
                 THEN Append(events, Event("purgeNormal", ""))
                 ELSE events
    /\ IF /\ IsSome(installOptions.networkConcurrency)
          /\ Get(installOptions.networkConcurrency) # 0
          /\ installOptions.packageManager # "pnpm"
       THEN /\ thrown' = Some("networkConcurrency")
            /\ runPc' = "threw"
            /\ UNCHANGED installSuccessful
       ELSE IF installOptions.maxInstallAttempts < 1
       THEN /\ thrown' = Some("maxInstallAttempts")
            /\ runPc' = "threw"
            /\ UNCHANGED installSuccessful
       ELSE /\ installSuccessful' = TRUE
            /\ runPc' = "try"
            /\ UNCHANGED thrown
    /\ UNCHANGED <<installOptions, installed>>
    /\ UNCHANGED configurationVars

\* Lines 195-209: one _doInstall call of the try block, for the next
\* subspace or for the whole repository, and the catch block when it throws.
DoInstall ==
    /\ runPc = "try"
    /\ thrown = None
    /\ installed < InstallCount(installOptions)
    /\ LET subspaceName == IF IsSome(SubspaceNames(installOptions))
                           THEN Get(SubspaceNames(installOptions))[installed + 1]
                           ELSE ""
       IN  /\ events' = Append(events, Event("doInstallAsync", subspaceName))
           /\ \E throws \in BOOLEAN :
                IF throws
                THEN /\ installSuccessful' = FALSE
                     /\ thrown' = Some("install")
                     /\ UNCHANGED installed
                ELSE /\ installed' = installed + 1
                     /\ UNCHANGED <<installSuccessful, thrown>>
    /\ UNCHANGED <<runPc, installOptions>>
    /\ UNCHANGED configurationVars

\* Lines 210-237: the finally block, and then the rethrow or the return.
RunAsyncFinally ==
    /\ runPc = "try"
    /\ thrown # None \/ installed = InstallCount(installOptions)
    /\ events' = events
                 \o <<Event("startDeleteAllAsync", "")>>
                 \o CollectTelemetry(installOptions, installSuccessful)
                 \o <<Event("flushTelemetry", ""), Event("postRushInstall", "")>>
    /\ runPc' = IF thrown # None THEN "threw" ELSE "returned"
    /\ UNCHANGED <<installOptions, installed, installSuccessful, thrown>>
    /\ UNCHANGED configurationVars

\* The sequences of at most MaxSubspaces distinct subspace names.
SubspaceLists ==
    {l \in SeqsUpTo(SubspaceNameSet, MaxSubspaces) :
        \A i, k \in 1..Len(l) : l[i] = l[k] => i = k}

\* A call of runAsync about to start.
InitInstall ==
    /\ NewWith([defined |-> FALSE, phases |-> None, commands |-> None, parameters |-> None])
    /\ runPc = "start"
    /\ \E filtered \in BOOLEAN : \E selectedSubspaces \in {None} \cup {Some(l) : l \in SubspaceLists} :
       \E purge \in BOOLEAN : \E networkConcurrency \in NetworkConcurrencies :
       \E packageManager \in PackageManagers : \E maxInstallAttempts \in InstallAttempts :
       \E telemetry \in BOOLEAN :
            installOptions = [filtered |-> filtered, selectedSubspaces |-> selectedSubspaces,
                              purge |-> purge, networkConcurrency |-> networkConcurrency,
                              packageManager |-> packageManager,
                              maxInstallAttempts |-> maxInstallAttempts,
                              telemetry |-> telemetry]
    /\ installed = 0
    /\ installSuccessful = TRUE
    /\ thrown = None
    /\ events = <<>>

----------------------------------------------------------------------------
(* Inputs: bounded sets of command-line.json documents *)

MaxPhases == 3      \* phases in a generated phase graph
MaxSelf == 2        \* entries in a generated dependencies.self list

PhaseJson(n, s, u) == [name |-> n, self |-> s, upstream |-> u]
Json(ph, c, pa) == [defined |-> TRUE, phases |-> ph, commands |-> c, parameters |-> pa]
UndefinedJson == [defined |-> FALSE, phases |-> None, commands |-> None, parameters |-> None]

Injective(seq) == \A i, k \in 1..Len(seq) : seq[i] = seq[k] => i = k
\* The sequences of at most n distinct members of S.
Arrangements(S, n) == {s \in SeqsUpTo(S, n) : Injective(s)}
\* An optional list of at most n distinct members of S.
OptionalLists(S, n) == {None} \cup {Some(s) : s \in Arrangements(S, n)}

GraphNames == {"_phase:a", "_phase:b", "_phase:c"}

\* The dependencies of a generated phase: any self list of at most MaxSelf
\* names, with or without an upstream dependency.
GraphDependencies == OptionalLists(GraphNames, MaxSelf) \X {None, Some(<<"_phase:c">>)}
GraphOrders == Arrangements(GraphNames, MaxPhases)

RECURSIVE PhaseArraysFor(_)
\* The phases arrays that declare names, in this order, with any dependencies.
PhaseArraysFor(names) ==
    IF names = <<>> THEN {<<>>}
    ELSE {Append(arr, PhaseJson(names[Len(names)], d[1], d[2])) :
            arr \in PhaseArraysFor(SubSeq(names, 1, Len(names) - 1)),
            d \in GraphDependencies}

\* The diamond: a self-depends on b and c (in either order), b and c each
\* self-depend on d; the phases array in every order.
DiamondPhase(n, ab) ==
    CASE n = "_phase:a" -> PhaseJson(n, Some(ab), None)
      [] n = "_phase:b" -> PhaseJson(n, Some(<<"_phase:d">>), None)
      [] n = "_phase:c" -> PhaseJson(n, Some(<<"_phase:d">>), None)
      [] n = "_phase:d" -> PhaseJson(n, None, None)

DiamondOrders == {o \in Arrangements(GraphNames \cup {"_phase:d"}, 4) : Len(o) = 4}
DiamondPhaseArrays ==
    {<<DiamondPhase(order[1], ab), DiamondPhase(order[2], ab),
       DiamondPhase(order[3], ab), DiamondPhase(order[4], ab)>> :
        order \in DiamondOrders,
        ab \in {<<"_phase:b", "_phase:c">>, <<"_phase:c", "_phase:b">>}}

----------------------------------------------------------------------------
(* Inputs with commands and parameters *)

MaxCommands == 2    \* commands in a generated commands array
MaxParameters == 1  \* parameters in a generated parameters array
MaxAssociated == 2  \* entries in a generated associatedCommands list

CommandJson(n, k, ph, sk, ido, safe) ==
    [name |-> n, commandKind |-> k, phases |-> ph, skipPhasesForCommand |-> sk,
     ignoreDependencyOrder |-> ido, safeForSimultaneousRushProcesses |-> safe]
Bulk(n, ido) == CommandJson(n, "bulk", <<>>, None, ido, FALSE)
Global(n) == CommandJson(n, "global", <<>>, None, None, FALSE)
Phased(n, ph, sk) == CommandJson(n, "phased", ph, sk, None, FALSE)

ParameterJson(kind, ac, ap, add, sk) ==
    [parameterKind |-> kind, longName |-> "", associatedCommands |-> ac,
     associatedPhases |-> ap, addPhasesToCommand |-> add, skipPhasesForCommand |-> sk,
     alternatives |-> <<>>, defaultValue |-> None]
StringParameter(ac, ap) == ParameterJson("string", ac, ap, None, None)
FlagParameter(ac, ap, add, sk) == ParameterJson("flag", ac, ap, add, sk)
ChoiceParameter(ac, ap, alternatives, defaultValue) ==
    [ParameterJson("choice", ac, ap, None, None)
        EXCEPT !.alternatives = alternatives, !.defaultValue = defaultValue]

\* The i-th parameter of a generated array is given its own longName.
LongName(i) == CASE i = 1 -> "--one" [] i = 2 -> "--two" [] OTHER -> "--more"
Named(list) == [i \in 1..Len(list) |-> [list[i] EXCEPT !.longName = LongName(i)]]
OptionalArrays(S, n) == {None} \cup {Some(s) : s \in SeqsUpTo(S, n)}
OptionalParameters(S) == {None} \cup {Some(Named(s)) : s \in SeqsUpTo(S, MaxParameters)}

\* Commands of every kind under the reserved names and a custom name.
CommandUniverse ==
    {Bulk("custom", ido) : ido \in {None, Some(TRUE), Some(FALSE)}}
    \cup {Bulk("build", None), Bulk("build", Some(TRUE)), Bulk("rebuild", None)}
    \cup {CommandJson("build", "bulk", <<>>, None, None, TRUE),
          CommandJson("rebuild", "phased", <<>>, None, None, TRUE)}
    \cup {Global("build"), Global("rebuild"), Global("custom")}
    \cup {Phased("build", <<>>, None), Phased("build", <<"_phase:a">>, None),
          Phased("rebuild", <<"_phase:a">>, None), Phased("custom", <<"_phase:a">>, None)}
CommandPhases == {None, Some(<<PhaseJson("_phase:a", None, None)>>)}
CommandArrays == OptionalArrays(CommandUniverse, MaxCommands)
CommandParameters ==
    OptionalParameters(
        {StringParameter(Some(<<c>>), ap) :
            c \in {"build", "rebuild", "custom"}, ap \in {None, Some(<<"_phase:a">>)}})

\* Phased commands that list or skip the phases of a two-phase graph in
\* which a may depend on b and b on a, bulk commands, one of them named as a
\* declared phase, and parameters that name a phase.
AssociationPhases ==
    {Some(<<PhaseJson("_phase:a", s, u), PhaseJson("_phase:b", None, v)>>) :
        s \in {None, Some(<<"_phase:b">>)}, u \in {None, Some(<<"_phase:b">>)},
        v \in {None, Some(<<"_phase:a">>)}}
AssociationCommandUniverse ==
    {Phased("custom", <<"_phase:a">>, None), Phased("custom", <<"_phase:b">>, None),
     Phased("custom", <<>>, Some(<<"_phase:a">>)), Phased("custom", <<>>, Some(<<"_phase:b">>)),
     Phased("other", <<"_phase:a">>, Some(<<"_phase:b">>)),
     Bulk("other", None), Bulk("_phase:b", None)}
AssociationCommands == OptionalArrays(AssociationCommandUniverse, MaxCommands)
AssociationParameters ==
    OptionalParameters(
        {StringParameter(None, Some(<<q>>)) : q \in {"_phase:a", "_phase:b"}}
        \cup {FlagParameter(None, None, Some(<<q>>), None) : q \in {"_phase:a", "_phase:b"}}
        \cup {FlagParameter(None, None, None, Some(<<q>>)) : q \in {"_phase:a", "_phase:b"}})

\* Parameters with any associatedCommands list of at most MaxAssociated
\* names, with and without other associations, against commands that are
\* bulk, phased or not declared.
BindingPhases == {None, Some(<<PhaseJson("_phase:a", None, None)>>)}
BindingCommands ==
    OptionalArrays({Bulk("custom", None), Phased("custom", <<>>, None),
                    Bulk("build", None), Phased("build", <<>>, None)}, MaxCommands)
AssociatedCommandLists ==
    {None} \cup {Some(l) : l \in SeqsUpTo({"build", "custom"}, MaxAssociated)}
BindingParameters ==
    OptionalParameters(
        {StringParameter(ac, ap) :
            ac \in AssociatedCommandLists, ap \in {None, Some(<<"_phase:a">>)}}
        \cup {FlagParameter(ac, ap, add, sk) :
                ac \in {None, Some(<<>>)}, ap \in {None, Some(<<>>)},
                add \in {None, Some(<<>>), Some(<<"_phase:a">>)},
                sk \in {None, Some(<<>>)}}
        \cup {ChoiceParameter(ac, None, <<"x">>, dv) :
                ac \in {None, Some(<<"custom">>)}, dv \in {None, Some("y")}})

\* Flag parameters with any addPhasesToCommand and skipPhasesForCommand
\* lists of at most MaxAssociated names, and choice parameters with any
\* default value, set or not, against their alternatives.
KindPhases ==
    {Some(<<PhaseJson("_phase:a", None, None)>>),
     Some(<<PhaseJson("_phase:a", None, None), PhaseJson("_phase:b", None, None)>>)}
KindCommands ==
    {None, Some(<<Phased("custom", <<"_phase:a">>, None)>>), Some(<<Bulk("custom", None)>>)}
KindPhaseLists ==
    {None} \cup {Some(l) : l \in SeqsUpTo({"_phase:a", "_phase:b"}, MaxAssociated)}
KindAlternatives == {<<>>, <<"x">>, <<"x", "y">>}
KindDefaultValues == {None, Some(""), Some("x"), Some("y"), Some("z")}
KindParameters ==
    OptionalParameters(
        {FlagParameter(None, None, add, sk) : add \in KindPhaseLists, sk \in KindPhaseLists}
        \cup {ChoiceParameter(ac, ap, alternatives, dv) :
                ac \in {None, Some(<<"custom">>)}, ap \in {None, Some(<<"_phase:a">>)},
                alternatives \in KindAlternatives, dv \in KindDefaultValues})

\* Phases arrays of at most MaxPhases well-formed and ill-formed names,
\* repeated or not, with and without a bulk command.
RegistrationNames == {"_phase:a", "_phase:b", "_phase:", "phase:a", "_ph"}
RegistrationPhases ==
    {None} \cup
    {Some([i \in 1..Len(names) |-> PhaseJson(names[i], None, None)]) :
        names \in SeqsUpTo(RegistrationNames, MaxPhases)}
RegistrationCommands == {None, Some(<<Bulk("custom", None)>>)}

\* Files that are absent or hold a document, with or without a commands
\* array, that the schema accepts or rejects.
LoadDocuments ==
    {UndefinedJson} \cup
    {Json(ph, c, None) : ph \in CommandPhases,
                         c \in OptionalArrays({Bulk("build", None), Bulk("rebuild", Some(TRUE)),
                                               Bulk("custom", None),
                                               Phased("custom", <<"_phase:a">>, None),
                                               Global("custom")}, MaxCommands)}
LoadFiles ==
    [named : BOOLEAN, exists : BOOLEAN, conforms : BOOLEAN, document : LoadDocuments]

\* Documents whose configurations take additional path folders: none, phased
\* and bulk commands with a parameter each, and one that is rejected.
FolderDocuments ==
    {UndefinedJson,
     Json(Some(<<PhaseJson("_phase:a", None, None)>>),
          Some(<<Phased("custom", <<"_phase:a">>, None)>>),
          Some(Named(<<StringParameter(None, Some(<<"_phase:a">>))>>))),
     Json(None, Some(<<Bulk("custom", None)>>),
          Some(Named(<<StringParameter(Some(<<"custom", "build">>), None)>>))),
     Json(None, Some(<<Global("build")>>), None)}

----------------------------------------------------------------------------
(* Specifications *)

Next == Construct

\* Phase graphs only: every phases array of at most MaxPhases distinctly
\* named phases over GraphNames, in every order (a dependency on a name that
\* is not in the array is a missing dependency), and the diamonds.
InitGraph ==
    \/ \E order \in GraphOrders : \E arr \in PhaseArraysFor(order) :
            InitWith(Json(Some(arr), None, None))
    \/ \E arr \in DiamondPhaseArrays : InitWith(Json(Some(arr), None, None))
SpecGraph == InitGraph /\ [][Next]_vars


\* Commands of every kind, with and without parameters that name them.
InitCommands ==
    \/ InitWith(UndefinedJson)
    \/ \E ph \in CommandPhases : \E c \in CommandArrays : \E pa \in CommandParameters :
            InitWith(Json(ph, c, pa))
SpecCommands == InitCommands /\ [][Next]_vars

\* Phase associations of commands and parameters.
InitAssociations ==
    \E ph \in AssociationPhases : \E c \in AssociationCommands :
        \E pa \in AssociationParameters : InitWith(Json(ph, c, pa))
SpecAssociations == InitAssociations /\ [][Next]_vars

\* Command associations of parameters.
InitBinding ==
    \E ph \in BindingPhases : \E c \in BindingCommands : \E pa \in BindingParameters :
        InitWith(Json(ph, c, pa))
SpecBinding == InitBinding /\ [][Next]_vars

\* Documents of all the kinds above: dependencies, commands and parameters
\* that name phases and commands, declared or not.
InitReferences == InitGraph \/ InitCommands \/ InitAssociations \/ InitBinding
SpecReferences == InitReferences /\ [][Next]_vars

\* Additional path folders of a constructed configuration.
NextFolders == Construct \/ PrependAdditionalPathFolder
SpecFolders == (\E j \in FolderDocuments : InitWith(j)) /\ [][NextFolders]_vars

\* Loading the configuration from a file.
NextLoad == LoadFromFileOrDefault
SpecLoad == (\E f \in LoadFiles : InitLoad(f)) /\ [][NextLoad]_vars

\* A call of runAsync of an install action.
NextInstall == RunAsyncBegin \/ RunAsyncValidate \/ DoInstall \/ RunAsyncFinally
SpecInstall == InitInstall /\ [][NextInstall]_vars

\* Registration of the declared phases.
InitRegistration ==
    \E ph \in RegistrationPhases : \E c \in RegistrationCommands :
        InitWith(Json(ph, c, None))
SpecRegistration == InitRegistration /\ [][Next]_vars

\* The checks that depend on the kind of a parameter.
InitKinds ==
    \E ph \in KindPhases : \E c \in KindCommands : \E pa \in KindParameters :
        InitWith(Json(ph, c, pa))
SpecKinds == InitKinds /\ [][Next]_vars


----------------------------------------------------------------------------
(* What a document declares, read off the input alone *)

Declared(j) == JsonPhases(j)
DeclaredNames(j) == {Declared(j)[i].name : i \in 1..Len(Declared(j))}
DeclaredPhase(j, n) == Declared(j)[CHOOSE i \in 1..Len(Declared(j)) : Declared(j)[i].name = n]
OptRange(o) == IF IsSome(o) THEN Range(Get(o)) ELSE {}

\* The dependency edges of a phases map: name -> set of names.
SelfEdges(ph) == [n \in DOMAIN ph |-> OptRange(ph[n].self)]
AllEdges(ph) == [n \in DOMAIN ph |-> OptRange(ph[n].self) \cup OptRange(ph[n].upstream)]
DeclaredMap(j) == [n \in DeclaredNames(j) |-> DeclaredPhase(j, n)]

RECURSIVE ReachFrom(_, _)
\* The names reachable from the set S by zero or more edges of E.
ReachFrom(E, S) ==
    LET T == S \cup UNION {E[n] : n \in S \cap DOMAIN E}
    IN  IF T = S THEN S ELSE ReachFrom(E, T)

\* The names reachable from n by one or more edges of E.
ReachAfter(E, n) == ReachFrom(E, E[n])
HasCycle(E) == \E n \in DOMAIN E : n \in ReachAfter(E, n)
AllDependenciesResolve(j) ==
    \A n \in DeclaredNames(j) : AllEdges(DeclaredMap(j))[n] \subseteq DeclaredNames(j)
RegistrationFailed ==
    error.kind \in {"phaseSpecifiedMoreThanOnce", "phaseNamePrefix", "phaseNameEmpty"}

----------------------------------------------------------------------------
(* Claims about the phase graph, checked under SpecGraph *)

\* The dependency graph that was registered when the related phase set of p
\* was computed: the declared phases for a declared phase, and this.phases
\* (with the synthetic phase in it) for the phase of a translated bulk command.
GraphWhenComputed(p) ==
    IF phases[p].isSynthetic THEN AllEdges(phases) ELSE AllEdges(DeclaredMap(json))

C3_CycleIsReported ==
    (pc # "new" /\ ~RegistrationFailed /\ AllDependenciesResolve(json)
        /\ HasCycle(SelfEdges(DeclaredMap(json)))) =>
        /\ pc = "failed"
        /\ error.kind = "cycle"
        /\ \A a, b \in DeclaredNames(json) :
            (/\ a # b
             /\ DeclaredPhase(json, a).self = Some(<<b>>)
             /\ DeclaredPhase(json, b).self = Some(<<a>>)
             /\ \A n \in DeclaredNames(json) \ {a, b} :
                    n \notin ReachAfter(SelfEdges(DeclaredMap(json)), n))
            => {a, b} \subseteq Range(error.chain)

\* C3's case: the two-phase cycle, reported from a phase that is declared
\* first and is not on the cycle.
C3_Witness ==
    /\ pc = "failed"
    /\ error.kind = "cycle"
    /\ Len(Declared(json)) = 3
    /\ \E a, b \in DeclaredNames(json) :
        /\ a # b
        /\ DeclaredPhase(json, a).self = Some(<<b>>)
        /\ DeclaredPhase(json, b).self = Some(<<a>>)
        /\ Declared(json)[1].name \notin {a, b}
        /\ error.name = Declared(json)[1].name
        /\ {a, b} \subseteq Range(error.chain)

IsDiamond(j) ==
    /\ DeclaredNames(j) = {"_phase:a", "_phase:b", "_phase:c", "_phase:d"}
    /\ Len(Declared(j)) = 4
    /\ DeclaredPhase(j, "_phase:a").self
            \in {Some(<<"_phase:b", "_phase:c">>), Some(<<"_phase:c", "_phase:b">>)}
    /\ DeclaredPhase(j, "_phase:b").self = Some(<<"_phase:d">>)
    /\ DeclaredPhase(j, "_phase:c").self = Some(<<"_phase:d">>)
    /\ OptRange(DeclaredPhase(j, "_phase:d").self) = {}

\* C4: the diamond (a self-depends on b and c, b and c on d) is constructed
\* without a cycle error, for either order of a's list and any order of the
\* phases array.
C4_DiamondIsAccepted ==
    (pc # "new" /\ IsDiamond(json)) => (pc = "constructed" /\ error.kind = "none")

\* C4's case: a constructed diamond whose array lists d first and a second,
\* with c before b in a's list.
C4_Witness ==
    /\ pc = "constructed"
    /\ IsDiamond(json)
    /\ Declared(json)[1].name = "_phase:d"
    /\ Declared(json)[2].name = "_phase:a"
    /\ DeclaredPhase(json, "_phase:a").self = Some(<<"_phase:c", "_phase:b">>)
    /\ relatedPhaseSets["_phase:a"] = {"_phase:a", "_phase:b", "_phase:c", "_phase:d"}


----------------------------------------------------------------------------
(* Claims about commands, checked under SpecCommands *)

DeclaredCommands(j) == JsonCommands(j)
DeclaresCommand(j, n) == \E i \in 1..Len(DeclaredCommands(j)) : DeclaredCommands(j)[i].name = n
BulkNames(j) ==
    {DeclaredCommands(j)[i].name :
        i \in {k \in 1..Len(DeclaredCommands(j)) : DeclaredCommands(j)[k].commandKind = "bulk"}}
\* The commands produced by bulk-to-phased translation.
TranslatedNames(j) ==
    BulkNames(j) \cup (IF DeclaresCommand(j, "build") THEN {} ELSE {"build"})
\* The parameters a command holds.
ParametersOf(c) == parameterSets[commands[c].associatedParameters]

\* C5: translating a bulk command named N registers one phase N, marked
\* synthetic, without self dependencies, whose upstream list is [N] unless
\* ignoreDependencyOrder is true, and then is absent.
C5_SyntheticPhaseOfBulkCommand ==
    pc = "constructed" =>
        /\ \A i \in 1..Len(DeclaredCommands(json)) :
            LET command == DeclaredCommands(json)[i] IN
            command.commandKind = "bulk" =>
                /\ command.name \in DOMAIN phases
                /\ phases[command.name] =
                    [name |-> command.name, isSynthetic |-> TRUE, self |-> None,
                     upstream |-> IF command.ignoreDependencyOrder = Some(TRUE)
                                  THEN None ELSE Some(<<command.name>>)]
        /\ DOMAIN phases = DeclaredNames(json) \cup TranslatedNames(json)
        /\ Injective(phaseOrder)
        /\ Range(phaseOrder) = DOMAIN phases

\* C5's case: two bulk commands, one that ignores the dependency order and
\* one that leaves it unset.
C5_Witness ==
    /\ pc = "constructed"
    /\ \E i, k \in 1..Len(DeclaredCommands(json)) :
        /\ DeclaredCommands(json)[i].commandKind = "bulk"
        /\ DeclaredCommands(json)[i].ignoreDependencyOrder = Some(TRUE)
        /\ phases[DeclaredCommands(json)[i].name].upstream = None
        /\ DeclaredCommands(json)[k].commandKind = "bulk"
        /\ DeclaredCommands(json)[k].ignoreDependencyOrder = None
        /\ phases[DeclaredCommands(json)[k].name].upstream
                = Some(<<DeclaredCommands(json)[k].name>>)

\* C6 as stated: every command produced by bulk-to-phased translation, the
\* default "build" included, is phased, lists exactly its synthetic phase,
\* and has disableBuildCache = true and isSynthetic = true.
C6_Original ==
    pc = "constructed" =>
        \A n \in TranslatedNames(json) :
            /\ commands[n].commandKind = "phased"
            /\ commands[n].phases = <<n>>
            /\ commands[n].isSynthetic
            /\ commands[n].disableBuildCache = Some(TRUE)

\* C6, amended: every command produced by bulk-to-phased translation is
\* phased, lists exactly its synthetic phase and has isSynthetic = true;
\* disableBuildCache is true for a bulk command declared in the input and is
\* unset for the default "build" synthesized when no "build" is declared.
C6_TranslatedCommand ==
    pc = "constructed" =>
        \A n \in TranslatedNames(json) :
            /\ commands[n].commandKind = "phased"
            /\ commands[n].phases = <<n>>
            /\ commands[n].isSynthetic
            /\ commands[n].disableBuildCache =
                    IF n \in BulkNames(json) THEN Some(TRUE) ELSE None

\* C6's case: a declared bulk command next to the synthesized default "build".
C6_Witness ==
    /\ pc = "constructed"
    /\ "custom" \in BulkNames(json)
    /\ ~DeclaresCommand(json, "build")
    /\ commands["custom"].disableBuildCache = Some(TRUE)
    /\ commands["build"].disableBuildCache = None
    /\ commands["build"].isSynthetic

\* C7: every constructed configuration holds a phased "build" and a phased
\* "rebuild", whatever the input declares.
C7_BuildAndRebuildExist ==
    pc = "constructed" =>
        /\ {"build", "rebuild"} \subseteq DOMAIN commands
        /\ commands["build"].commandKind = "phased"
        /\ commands["rebuild"].commandKind = "phased"

\* C7's case: only "rebuild" is declared, as a bulk command.
C7_Witness ==
    /\ pc = "constructed"
    /\ json.defined
    /\ "rebuild" \in BulkNames(json)
    /\ ~DeclaresCommand(json, "build")
    /\ commands["build"].commandKind = "phased"

InputParameter(i) == JsonParameters(json)[i]
\* The i-th parameter's only association is the command name c.
OnlyNamesCommand(i, c) ==
    /\ InputParameter(i).associatedCommands = Some(<<c>>)
    /\ OptRange(InputParameter(i).associatedPhases) = {}
    /\ OptRange(InputParameter(i).addPhasesToCommand) = {}
    /\ OptRange(InputParameter(i).skipPhasesForCommand) = {}
OtherOf(c) == IF c = "build" THEN "rebuild" ELSE "build"

\* C8: a "rebuild" that is not declared has build's phase list and the very
\* same associatedParameters set as "build"; a declared "rebuild" has a set
\* of its own, and a parameter added to "build" or "rebuild" by the direct
\* association of that command's name is not added to the other one.
C8_RebuildSharesBuildParameters ==
    pc = "constructed" =>
        /\ ~DeclaresCommand(json, "rebuild") =>
            /\ commands["rebuild"].phases = commands["build"].phases
            /\ commands["rebuild"].associatedParameters = commands["build"].associatedParameters
            /\ ParametersOf("rebuild") = ParametersOf("build")
        /\ DeclaresCommand(json, "rebuild") =>
            /\ commands["rebuild"].associatedParameters # commands["build"].associatedParameters
            /\ \A i \in 1..Len(parameters) : \A c \in {"build", "rebuild"} :
                (OnlyNamesCommand(i, c) /\ c \notin TranslatedNames(json)) =>
                    (i \in ParametersOf(c) /\ i \notin ParametersOf(OtherOf(c)))

\* C8's case: "build" and "rebuild" both declared as phased commands and a
\* parameter that names "rebuild" alone.
C8_Witness ==
    /\ pc = "constructed"
    /\ DeclaresCommand(json, "rebuild")
    /\ DeclaresCommand(json, "build")
    /\ TranslatedNames(json) = {}
    /\ Len(parameters) >= 1
    /\ OnlyNamesCommand(1, "rebuild")
    /\ 1 \in ParametersOf("rebuild")
    /\ 1 \notin ParametersOf("build")

----------------------------------------------------------------------------
(* Claims about the binding of parameters, checked under SpecBinding *)

\* C9: in a constructed configuration, a name in a parameter's input
\* associatedCommands that is the name of a translated bulk command (the
\* default "build" included) occurs nowhere in the parameter's
\* associatedCommands, however often and next to whatever it was listed;
\* the synthetic phase is in its associatedPhases and the parameter is in
\* the translated command's associatedParameters.
C9_BulkAssociationIsRedirected ==
    pc = "constructed" =>
        \A i \in 1..Len(parameters) :
            \A n \in OptRange(InputParameter(i).associatedCommands) :
                n \in TranslatedNames(json) =>
                    /\ n \notin Range(parameters[i].associatedCommands)
                    /\ n \in Range(parameters[i].associatedPhases)
                    /\ i \in ParametersOf(n)

\* C9's case: a parameter that lists two translated names in a row, the
\* same name twice or two different ones, and ends with none of them.
C9_Witness ==
    /\ pc = "constructed"
    /\ Len(parameters) >= 1
    /\ IsSome(InputParameter(1).associatedCommands)
    /\ Len(Get(InputParameter(1).associatedCommands)) = 2
    /\ Range(Get(InputParameter(1).associatedCommands)) \subseteq TranslatedNames(json)
    /\ parameters[1].associatedCommands = <<>>
    /\ Range(Get(InputParameter(1).associatedCommands)) \subseteq Range(parameters[1].associatedPhases)

\* The declaration names no command and no phase.
ListsNoAssociations(p) ==
    /\ OptRange(p.associatedCommands) = {}
    /\ OptRange(p.associatedPhases) = {}
    /\ p.parameterKind = "flag" =>
        (OptRange(p.addPhasesToCommand) = {} /\ OptRange(p.skipPhasesForCommand) = {})
\* The declaration is a choice whose default value fails its own check.
DefaultValueRejected(p) ==
    /\ p.parameterKind = "choice"
    /\ IsSome(p.defaultValue)
    /\ Get(p.defaultValue) # ""
    /\ ~Has(p.alternatives, Get(p.defaultValue))

\* C10: a parameter whose associatedCommands and associatedPhases are empty
\* or absent and which, if a flag, has empty or absent addPhasesToCommand and
\* skipPhasesForCommand makes construction fail; when construction gets as
\* far as that parameter's final check, the error is "lists no associated
\* commands or phases" and names the parameter's longName.  Hence every
\* parameter of a constructed configuration names a command or a phase.
C10_ParameterWithoutAssociationsIsRejected ==
    pc # "new" =>
        /\ \A i \in 1..Len(JsonParameters(json)) :
            ListsNoAssociations(InputParameter(i)) =>
                /\ pc = "failed"
                /\ (Len(parameters) = i /\ ~DefaultValueRejected(InputParameter(i))) =>
                    (error.kind = "noAssociations" /\ error.name = InputParameter(i).longName)
        /\ pc = "constructed" =>
            \A i \in 1..Len(parameters) :
                Range(parameters[i].associatedCommands) \cup Range(parameters[i].associatedPhases)
                \cup OptRange(parameters[i].addPhasesToCommand)
                \cup OptRange(parameters[i].skipPhasesForCommand) # {}

\* C10's case: a flag whose four lists are present and empty is rejected by
\* name.
C10_Witness ==
    /\ pc = "failed"
    /\ Len(JsonParameters(json)) >= 1
    /\ InputParameter(1).parameterKind = "flag"
    /\ InputParameter(1).associatedCommands = Some(<<>>)
    /\ InputParameter(1).associatedPhases = Some(<<>>)
    /\ InputParameter(1).addPhasesToCommand = Some(<<>>)
    /\ InputParameter(1).skipPhasesForCommand = Some(<<>>)
    /\ error.kind = "noAssociations"
    /\ error.name = InputParameter(1).longName

----------------------------------------------------------------------------
(* Claims about phase associations, checked under SpecAssociations *)

\* The declaration names phase q.
NamesPhase(p, q) ==
    \/ q \in OptRange(p.associatedPhases)
    \/ p.parameterKind = "flag"
        /\ q \in OptRange(p.addPhasesToCommand) \cup OptRange(p.skipPhasesForCommand)
\* Some bulk command of the input is named as a declared phase.
BulkCommandNamedAsPhase(j) == BulkNames(j) \cap DeclaredNames(j) # {}

\* C2: for every phased command C declared in the input, every phase P in
\* C.phases or C.skipPhasesForCommand and every phase Q in the related phase
\* set of P, each parameter that names Q is in C's associatedParameters
\* after construction.
C2_ParametersReachCommandsOfRelatedPhases ==
    pc = "constructed" =>
        \A k \in 1..Len(DeclaredCommands(json)) :
            LET C == DeclaredCommands(json)[k] IN
            C.commandKind = "phased" =>
                \A P \in Range(C.phases) \cup OptRange(C.skipPhasesForCommand) :
                    \A Q \in relatedPhaseSets[P] :
                        \A i \in 1..Len(parameters) :
                            NamesPhase(InputParameter(i), Q) => i \in ParametersOf(C.name)

\* The same property for the inputs in which no bulk command is named as a
\* declared phase.
ParametersReachCommandsUnlessPhaseReplaced ==
    BulkCommandNamedAsPhase(json) \/ C2_ParametersReachCommandsOfRelatedPhases

----------------------------------------------------------------------------
(* Claims about the validation of the phase graph, checked under SpecGraph *)

\* Phase n of the input lists d, which no phase of the input declares.
ListsMissingDependency(j, n, d) ==
    /\ n \in DeclaredNames(j)
    /\ d \in AllEdges(DeclaredMap(j))[n]
    /\ d \notin DeclaredNames(j)
SomeDependencyIsMissing(j) == ~AllDependenciesResolve(j)

\* C11: if all phases register and some phase lists a self or upstream
\* dependency that is not a registered phase, construction fails, and
\* unless a cycle is reported first the error is the "does not exist" error
\* naming a phase and a dependency of it that is missing, whatever the order
\* of the phases array.
C11_MissingDependencyIsReported ==
    (pc # "new" /\ ~RegistrationFailed /\ SomeDependencyIsMissing(json)) =>
        /\ pc = "failed"
        /\ error.kind # "cycle" =>
            /\ error.kind \in {"selfDependencyDoesNotExist", "upstreamDependencyDoesNotExist"}
            /\ ListsMissingDependency(json, error.name, error.detail)

\* The same property for the inputs in which no phase that is declared
\* before the phase with the missing dependency reaches it.
MissingDependencyIsReportedWhenSeenFirst ==
    (pc # "new" /\ ~RegistrationFailed /\ SomeDependencyIsMissing(json)
        /\ error.kind = "TypeError") =>
        \E i, k \in 1..Len(Declared(json)) :
            /\ i < k
            /\ \E d \in GraphNames : ListsMissingDependency(json, Declared(json)[k].name, d)
            /\ Declared(json)[k].name
                    \in ReachAfter(AllEdges(DeclaredMap(json)), Declared(json)[i].name)

----------------------------------------------------------------------------
(* Claims about reserved command names, checked under SpecCommands *)

\* The declaration uses a reserved name in a way that is not supported.
MisusesReservedName(command) ==
    /\ command.name \in {"build", "rebuild"}
    /\ \/ command.commandKind = "global"
       \/ command.safeForSimultaneousRushProcesses

\* C12: a command named "build" or "rebuild" that is global, or that sets
\* safeForSimultaneousRushProcesses, makes construction fail; when it is the
\* first command of the array the error is the one for its kind or for its
\* flag and names it; and the "build" and "rebuild" of a constructed
\* configuration are not global and do not have the flag set.
C12_ReservedNamesAreChecked ==
    pc # "new" =>
        /\ \A i \in 1..Len(DeclaredCommands(json)) :
            MisusesReservedName(DeclaredCommands(json)[i]) =>
                /\ pc = "failed"
                /\ i = 1 =>
                    /\ error.name = DeclaredCommands(json)[1].name
                    /\ error.kind =
                        IF DeclaredCommands(json)[1].commandKind = "global"
                        THEN "reservedCommandIsGlobal"
                        ELSE "reservedCommandIsSafeForSimultaneous"
        /\ pc = "constructed" =>
            \A n \in {"build", "rebuild"} :
                /\ commands[n].commandKind # "global"
                /\ ~commands[n].safeForSimultaneousRushProcesses

\* C12's case: a phased "rebuild" with the flag set, declared after a valid
\* command, is rejected.
C12_Witness ==
    /\ pc = "failed"
    /\ Len(DeclaredCommands(json)) = 2
    /\ ~MisusesReservedName(DeclaredCommands(json)[1])
    /\ DeclaredCommands(json)[2].name = "rebuild"
    /\ DeclaredCommands(json)[2].commandKind = "phased"
    /\ DeclaredCommands(json)[2].safeForSimultaneousRushProcesses
    /\ error.kind = "reservedCommandIsSafeForSimultaneous"
    /\ error.name = "rebuild"

----------------------------------------------------------------------------
(* Claims about flag and choice parameters, checked under SpecKinds *)

\* The phases a flag declaration both adds and skips.
AddedAndSkipped(p) ==
    IF p.parameterKind = "flag"
    THEN OptRange(p.addPhasesToCommand) \cap OptRange(p.skipPhasesForCommand)
    ELSE {}
\* Every phase the flag declaration adds or skips is a declared phase.
AddsAndSkipsDeclaredPhases(p) ==
    OptRange(p.addPhasesToCommand) \cup OptRange(p.skipPhasesForCommand)
        \subseteq DeclaredNames(json) \ BulkNames(json)

\* C13: a flag parameter that lists a phase in both addPhasesToCommand and
\* skipPhasesForCommand makes construction fail; when all phases it lists
\* exist and construction gets as far as this parameter, the error is the
\* one for a phase in both lists and names such a phase and the parameter.
\* The two lists of every flag of a constructed configuration are disjoint.
C13_AddAndSkipAreDisjoint ==
    pc # "new" =>
        /\ \A i \in 1..Len(JsonParameters(json)) :
            AddedAndSkipped(InputParameter(i)) # {} =>
                /\ pc = "failed"
                /\ (Len(parameters) = i /\ AddsAndSkipsDeclaredPhases(InputParameter(i))) =>
                    /\ error.kind = "phaseInBothAddAndSkip"
                    /\ error.name = InputParameter(i).longName
                    /\ error.detail \in AddedAndSkipped(InputParameter(i))
        /\ pc = "constructed" =>
            \A i \in 1..Len(parameters) : AddedAndSkipped(parameters[i]) = {}

\* C13's case: a flag that adds a and b and skips b and a is rejected,
\* naming b, the first skipped phase that is also added.
C13_Witness ==
    /\ pc = "failed"
    /\ Len(JsonParameters(json)) >= 1
    /\ InputParameter(1).parameterKind = "flag"
    /\ InputParameter(1).addPhasesToCommand = Some(<<"_phase:a", "_phase:b">>)
    /\ InputParameter(1).skipPhasesForCommand = Some(<<"_phase:b", "_phase:a">>)
    /\ error.kind = "phaseInBothAddAndSkip"
    /\ error.detail = "_phase:b"
    /\ error.name = InputParameter(1).longName

\* The declaration is a choice whose default value is set and is not the
\* name of one of its alternatives.
DefaultValueIsNoAlternative(p) ==
    /\ p.parameterKind = "choice"
    /\ IsSome(p.defaultValue)
    /\ ~Has(p.alternatives, Get(p.defaultValue))

\* C14: a choice parameter whose defaultValue is set, to any string, the
\* empty string included, and is not the name of one of its alternatives
\* makes construction fail; so the set defaultValue of every choice
\* parameter of a constructed configuration names one of its alternatives.
C14_DefaultValueIsAnAlternative ==
    pc # "new" =>
        /\ \A i \in 1..Len(JsonParameters(json)) :
            DefaultValueIsNoAlternative(InputParameter(i)) => pc = "failed"
        /\ pc = "constructed" =>
            \A i \in 1..Len(parameters) : ~DefaultValueIsNoAlternative(parameters[i])

\* The same property for default values other than the empty string, with
\* the error that is reported when construction gets as far as the parameter.
NonEmptyDefaultValueIsAnAlternative ==
    pc # "new" =>
        \A i \in 1..Len(JsonParameters(json)) :
            (DefaultValueIsNoAlternative(InputParameter(i))
                /\ InputParameter(i).defaultValue # Some("")) =>
                /\ pc = "failed"
                /\ Len(parameters) = i =>
                    /\ error.kind = "defaultValueNotAnAlternative"
                    /\ error.name = InputParameter(i).longName

----------------------------------------------------------------------------
(* Claims about phase registration, checked under SpecRegistration *)

\* The name begins with "_phase:".
BeginsWithPrefix(n) ==
    /\ Len(Chars(n)) >= Len(Chars("_phase:"))
    /\ \A k \in 1..Len(Chars("_phase:")) : Chars(n)[k] = Chars("_phase:")[k]
\* The name is "_phase:" followed by at least one character.
WellFormedPhaseName(n) == BeginsWithPrefix(n) /\ Len(Chars(n)) > Len(Chars("_phase:"))
RepeatsEarlierName(j, i) == \E k \in 1..(i - 1) : Declared(j)[k].name = Declared(j)[i].name
\* The i-th phase of the array cannot be registered.
CannotRegister(j, i) ==
    ~WellFormedPhaseName(Declared(j)[i].name) \/ RepeatsEarlierName(j, i)
\* The error registration reports for the i-th phase.
RegistrationErrorFor(j, i) ==
    IF RepeatsEarlierName(j, i) THEN "phaseSpecifiedMoreThanOnce"
    ELSE IF ~BeginsWithPrefix(Declared(j)[i].name) THEN "phaseNamePrefix"
    ELSE "phaseNameEmpty"

\* C15: construction fails if a phase name does not begin with "_phase:",
\* has no characters after it, or repeats the name of an earlier phase, with
\* the error for the first such phase of the array; so the declared phases
\* of a constructed configuration have distinct names of the form "_phase:"
\* followed by at least one character.
C15_PhaseNamesAreWellFormed ==
    pc # "new" =>
        /\ \A i \in 1..Len(Declared(json)) :
            CannotRegister(json, i) =>
                /\ pc = "failed"
                /\ (\A k \in 1..(i - 1) : ~CannotRegister(json, k)) =>
                    /\ error.kind = RegistrationErrorFor(json, i)
                    /\ error.name = Declared(json)[i].name
        /\ pc = "constructed" =>
            \A n \in DOMAIN phases :
                ~phases[n].isSynthetic =>
                    /\ WellFormedPhaseName(n)
                    /\ Cardinality({i \in 1..Len(Declared(json)) : Declared(json)[i].name = n}) = 1

\* C15's case: a name that is only the prefix, after a well-formed one.
C15_Witness ==
    /\ pc = "failed"
    /\ Len(Declared(json)) >= 2
    /\ Declared(json)[1].name = "_phase:a"
    /\ Declared(json)[2].name = "_phase:"
    /\ error.kind = "phaseNameEmpty"
    /\ error.name = "_phase:"

----------------------------------------------------------------------------
(* Claims about loadFromFileOrDefault, checked under SpecLoad *)

LoadedFromFile == file.named /\ file.exists
DocumentHasCommands == file.document.defined /\ IsSome(file.document.commands)

\* C16: every document loaded from an existing file is validated against
\* the schema before the constructor runs, with or without a commands array,
\* and a document the schema rejects yields no configuration.
C16_LoadedDocumentIsValidated ==
    (pc # "load" /\ LoadedFromFile) =>
        /\ validated
        /\ ~file.conforms => pc # "constructed"

\* The same property for the documents that have a commands array.
DocumentWithCommandsIsValidated ==
    (pc # "load" /\ LoadedFromFile /\ DocumentHasCommands) =>
        /\ validated
        /\ ~file.conforms => (pc = "failed" /\ error.kind = "schemaValidation")

----------------------------------------------------------------------------
(* Claims about references, checked under SpecReferences *)

PhaseReferencesResolve ==
    \A n \in DOMAIN phases :
        OptRange(phases[n].self) \cup OptRange(phases[n].upstream) \subseteq DOMAIN phases
CommandReferencesResolve ==
    \A c \in DOMAIN commands :
        commands[c].commandKind = "phased" =>
            Range(commands[c].phases) \cup OptRange(commands[c].skipPhasesForCommand)
                \subseteq DOMAIN phases
ParameterReferencesResolve ==
    \A i \in 1..Len(parameters) :
        /\ Range(parameters[i].associatedCommands) \subseteq DOMAIN commands
        /\ Range(parameters[i].associatedPhases) \cup OptRange(parameters[i].addPhasesToCommand)
            \cup OptRange(parameters[i].skipPhasesForCommand) \subseteq DOMAIN phases

\* C17: in a constructed configuration every self and upstream dependency
\* of every phase, every entry of a phased command's phases and
\* skipPhasesForCommand, and every entry of a parameter's associatedPhases,
\* addPhasesToCommand and skipPhasesForCommand is a key of the phases map,
\* and every entry of a parameter's associatedCommands is a key of the
\* commands map.
C17_AllReferencesResolve ==
    pc = "constructed" =>
        /\ PhaseReferencesResolve
        /\ CommandReferencesResolve
        /\ ParameterReferencesResolve

\* C17's case: a parameter that ends with a command and two phases, one of
\* them the synthetic phase of a bulk command it named, next to a declared
\* phase.
C17_Witness ==
    /\ pc = "constructed"
    /\ Len(parameters) >= 1
    /\ InputParameter(1).associatedCommands = Some(<<"custom", "build">>)
    /\ parameters[1].associatedCommands = <<"build">>
    /\ parameters[1].associatedPhases = <<"_phase:a", "custom">>
    /\ {"_phase:a", "custom"} \subseteq DOMAIN phases
    /\ ~phases["_phase:a"].isSynthetic

----------------------------------------------------------------------------
(* Claims about additionalPathFolders, checked under SpecFolders *)

RECURSIVE Reversed(_)
Reversed(seq) == IF seq = <<>> THEN <<>> ELSE Append(Reversed(Tail(seq)), Head(seq))

\* A step taken on a constructed configuration puts one folder at index 0,
\* keeps the earlier entries in their order, and leaves the phases, the
\* commands, their associatedParameters and the parameters as they were.
PrependKeepsTheRest ==
    pc = "constructed" =>
        /\ Len(additionalPathFolders') = Len(additionalPathFolders) + 1
        /\ Tail(additionalPathFolders') = additionalPathFolders
        /\ UNCHANGED <<phases, commands, parameterSets, parameters>>

\* C18: after any sequence of prependAdditionalPathFolder calls on a
\* constructed configuration, additionalPathFolders holds the folders of the
\* calls in reverse call order; each call inserts at index 0, removes
\* nothing, and changes neither the phases map, the commands map, any
\* command's associatedParameters nor the parameters list.
C18_FoldersAreInReverseCallOrder ==
    /\ [](additionalPathFolders = Reversed(calls))
    /\ [][PrependKeepsTheRest]_vars

\* C18's case: three calls on a configuration that has a parameter, the last
\* folder first.
C18_Witness ==
    /\ pc = "constructed"
    /\ calls = <<"/one", "/two", "/three">>
    /\ additionalPathFolders = <<"/three", "/two", "/one">>
    /\ Len(parameters) = 1

----------------------------------------------------------------------------
(* Claims about the precision of the cycle check, checked under SpecGraph *)

\* C19: when all phases register, every dependency resolves and the
\* self-dependency graph has no cycle, the constructor raises no cycle
\* error, whatever the out-degrees and the order of each dependency list.
C19_NoCycleErrorWithoutCycle ==
    (pc # "new" /\ ~RegistrationFailed /\ AllDependenciesResolve(json)
        /\ ~HasCycle(SelfEdges(DeclaredMap(json)))) =>
        error.kind # "cycle"

\* The same property for the graphs in which no phase lists, next to
\* another self dependency, a phase that a phase listed before it reaches.
NoCycleErrorWithoutSharedDependency ==
    (pc # "new" /\ ~RegistrationFailed /\ AllDependenciesResolve(json)
        /\ ~HasCycle(SelfEdges(DeclaredMap(json)))
        /\ error.kind = "cycle") =>
        \E n \in DeclaredNames(json) :
            LET dependencies == Get(DeclaredPhase(json, n).self) IN
            /\ IsSome(DeclaredPhase(json, n).self)
            /\ Len(dependencies) > 1
            /\ \E i, k \in 1..Len(dependencies) :
                /\ i # k
                /\ dependencies[i]
                    \in ReachFrom(SelfEdges(DeclaredMap(json)), {dependencies[k]})

----------------------------------------------------------------------------
(* Claims about the commands a parameter applies to, checked under
   SpecAssociations *)

\* The commands that hold the i-th parameter.
CommandsHolding(i) == {c \in DOMAIN commands : i \in ParametersOf(c)}
\* The phases the i-th parameter names after binding.
PhasesNamedBy(i) ==
    Range(parameters[i].associatedPhases) \cup OptRange(parameters[i].addPhasesToCommand)
        \cup OptRange(parameters[i].skipPhasesForCommand)

\* C20 as stated: after construction every parameter is a member of the
\* associatedParameters of at least one command.
C20_Original ==
    pc = "constructed" => \A i \in 1..Len(parameters) : CommandsHolding(i) # {}

\* C20, amended: after construction every parameter names at least one
\* command or phase, and it is held by some command exactly when it names a
\* command or names a phase that some command lists, skips or depends on;
\* a parameter that only names phases no command is associated with is
\* accepted and is held by no command.
C20_ParameterHeldWhenItReachesACommand ==
    pc = "constructed" =>
        \A i \in 1..Len(parameters) :
            /\ Range(parameters[i].associatedCommands) \cup PhasesNamedBy(i) # {}
            /\ CommandsHolding(i) # {} <=>
                \/ parameters[i].associatedCommands # <<>>
                \/ \E q \in PhasesNamedBy(i) : commandsByPhaseName[q] # {}

\* C20's case: a parameter that names a declared phase no command lists is
\* accepted and held by no command, next to a phased command on another phase.
C20_Witness ==
    /\ pc = "constructed"
    /\ Len(parameters) = 1
    /\ parameters[1].associatedPhases = <<"_phase:b">>
    /\ commandsByPhaseName["_phase:b"] = {}
    /\ commandsByPhaseName["_phase:a"] # {}
    /\ CommandsHolding(1) = {}

----------------------------------------------------------------------------
(* Claims about the parameters a command holds, checked under SpecReferences *)

\* The phases the declaration of the i-th parameter names: in
\* associatedPhases, for a flag in addPhasesToCommand and
\* skipPhasesForCommand, and as the synthetic phase of a bulk command that
\* it names in associatedCommands.
PhasesDeclaredBy(i) ==
    {q \in DOMAIN phases : NamesPhase(InputParameter(i), q)}
    \cup (OptRange(InputParameter(i).associatedCommands) \cap TranslatedNames(json))
\* The phases command c lists.
PhasesListedBy(c) ==
    IF commands[c].commandKind = "phased"
    THEN Range(commands[c].phases) \cup OptRange(commands[c].skipPhasesForCommand)
    ELSE {}
NamesCommand(i, c) == c \in OptRange(InputParameter(i).associatedCommands)
\* The related phase sets the constructor computed for phase P: the one
\* stored last, and for a declared phase the one of the declared graph,
\* which was in use while the commands declared before a bulk command of
\* the same name were registered.
RelatedPhaseSetsOf(P) ==
    relatedPhaseSets[P]
    \cup (IF P \in DeclaredNames(json) THEN ReachFrom(AllEdges(DeclaredMap(json)), {P}) ELSE {})
\* The declaration names c, or names a phase in the related phase set of a
\* phase that c lists.
Reaches(i, c) ==
    \/ NamesCommand(i, c)
    \/ \E P \in PhasesListedBy(c) : RelatedPhaseSetsOf(P) \cap PhasesDeclaredBy(i) # {}
RebuildIsSynthesized == ~DeclaresCommand(json, "rebuild")

\* C21 as stated: a command holds a parameter only if the parameter's
\* declaration reaches the command, or the command is the synthesized
\* "rebuild" and the declaration reaches "build"; in particular "build"
\* does not hold a parameter whose only association is "rebuild".
C21_Original ==
    pc = "constructed" =>
        \A c \in DOMAIN commands : \A i \in ParametersOf(c) :
            \/ Reaches(i, c)
            \/ c = "rebuild" /\ RebuildIsSynthesized /\ Reaches(i, "build")

\* C21, amended: a command holds a parameter only if the parameter's
\* declaration reaches the command, or the command is the synthesized
\* "rebuild" and the declaration reaches "build", or the command is "build",
\* "rebuild" is synthesized and the declaration names "rebuild"; "build"
\* does not hold a parameter whose only association is "rebuild" when
\* "rebuild" is declared.
C21_HeldOnlyWhenReached ==
    pc = "constructed" =>
        /\ \A c \in DOMAIN commands : \A i \in ParametersOf(c) :
            \/ Reaches(i, c)
            \/ c = "rebuild" /\ RebuildIsSynthesized /\ Reaches(i, "build")
            \/ c = "build" /\ RebuildIsSynthesized /\ NamesCommand(i, "rebuild")
        /\ ~RebuildIsSynthesized =>
            \A i \in 1..Len(parameters) :
                OnlyNamesCommand(i, "rebuild") => i \notin ParametersOf("build")


\* C21's case: "rebuild" is synthesized and a parameter whose only
\* association is the command name "rebuild" is held by "build" as well.
C21_Witness ==
    /\ pc = "constructed"
    /\ RebuildIsSynthesized
    /\ Len(parameters) >= 1
    /\ OnlyNamesCommand(1, "rebuild")
    /\ ~Reaches(1, "build")
    /\ 1 \in ParametersOf("build")
    /\ 1 \in ParametersOf("rebuild")

----------------------------------------------------------------------------
(* Claims about the phases of bulk commands, checked under SpecAssociations *)

\* The phase as the first loop of the constructor registered it.
RegisteredDeclaredPhase(n) ==
    [name |-> n, isSynthetic |-> FALSE,
     self |-> DeclaredPhase(json, n).self, upstream |-> DeclaredPhase(json, n).upstream]
\* The declared phased commands that were associated with phase q when they
\* were registered.
CommandsAssociatedAtRegistration(q) ==
    {DeclaredCommands(json)[k].name :
        k \in {k \in 1..Len(DeclaredCommands(json)) :
                /\ DeclaredCommands(json)[k].commandKind = "phased"
                /\ \E P \in Range(DeclaredCommands(json)[k].phases)
                        \cup OptRange(DeclaredCommands(json)[k].skipPhasesForCommand) :
                    q \in ReachFrom(AllEdges(DeclaredMap(json)), {P})}}

\* C22: translating a bulk command replaces or alters no phase that is
\* already registered: after construction every declared phase is still the
\* phase that was registered for it, so that no name stands for both a
\* declared and a synthetic phase, and the commands that were associated
\* with it are still associated with it, whatever the bulk commands are
\* named.
C22_TranslationKeepsRegisteredPhases ==
    pc = "constructed" =>
        \A n \in DeclaredNames(json) :
            /\ phases[n] = RegisteredDeclaredPhase(n)
            /\ n \notin DOMAIN syntheticPhases
            /\ CommandsAssociatedAtRegistration(n) \subseteq commandsByPhaseName[n]

\* The same property for the inputs in which no bulk command is named as a
\* declared phase.
TranslationKeepsPhasesOfOtherNames ==
    BulkCommandNamedAsPhase(json) \/ C22_TranslationKeepsRegisteredPhases

----------------------------------------------------------------------------
(* Claims about BaseInstallAction.runAsync, checked under SpecInstall *)

RunCompleted == runPc \in {"returned", "threw"}
Handled(name) == {i \in 1..Len(events) : events[i].name = name}
InstallThrew == thrown = Some("install")

\* The calls the finally block makes before it handles postRushInstall at
\* index i: the purge deletion is started, and then the telemetry is
\* collected with result "Succeeded" exactly when no install threw.
PostHookFollowsCleanup(i) ==
    \E d \in Handled("startDeleteAllAsync") : \E t \in Handled("_collectTelemetry") :
        /\ d < t
        /\ t < i
        /\ events[t].detail = "Succeeded" <=> ~InstallThrew

\* C23: once runAsync has handled the preRushInstall event hook, it handles
\* the postRushInstall event hook exactly once before it completes, whether
\* it returns or throws (a parameter that fails validation, an install that
\* fails for any subspace, or success), never more than once while it runs,
\* and only after the purge deletion has been started and the telemetry has
\* been collected with result "Succeeded" exactly when no install threw.
C23_PostHookFollowsPreHook ==
    /\ Cardinality(Handled("postRushInstall")) <= 1
    /\ \A i \in Handled("postRushInstall") : PostHookFollowsCleanup(i)
    /\ (RunCompleted /\ Handled("preRushInstall") # {}) =>
            Cardinality(Handled("postRushInstall")) = 1

\* The same property for the calls whose parameters pass the validation of
\* lines 174-187, which are the calls that enter the try block.
PostHookFollowsPreHookOnceInstalling ==
    (RunCompleted /\ thrown \in {Some("networkConcurrency"), Some("maxInstallAttempts")})
    \/ C23_PostHookFollowsPreHook

\* A call that throws on a parameter after the preRushInstall event hook.
ValidationThrewAfterPreHook ==
    /\ runPc = "threw"
    /\ thrown = Some("maxInstallAttempts")
    /\ Handled("preRushInstall") # {}
    /\ Handled("postRushInstall") = {}

\* A call whose second subspace install threw: the postRushInstall event
\* hook is handled once, after the telemetry with result "Failed".
InstallThrewForSecondSubspace ==
    /\ runPc = "threw"
    /\ InstallThrew
    /\ installed = 1
    /\ Cardinality(Handled("postRushInstall")) = 1
    /\ \E t \in Handled("telemetry.log") : events[t].detail = "Failed"

====
